---------------------------- MODULE Spec2Model ----------------------------
(***************************************************************************)
(* Model of the trajectory / link-budget / pass-segmentation core of      *)
(* ast_spacemobile:                                                        *)
(*   core/calculations.py   calculate_signal_strength,                    *)
(*                          generate_satellite_passes                     *)
(*   analysis/passes.py     identify_passes                               *)
(*   reports/generator.py   _generate_pass_table_markdown                 *)
(*                                                                         *)
(* Numbers.  Every real quantity of the program (degrees, dB, dBm, km) is *)
(* a fixed-point integer in thousandths: 10.0 degrees is 10000, 2.0 dB is *)
(* 2000, 600 km is 600000.  Times are whole seconds counted from the      *)
(* start of the requested window.  An absent value (Python None) is the  *)
(* empty sequence and a present value v is the one-element sequence <<v>>.*)
(***************************************************************************)
EXTENDS Integers, Sequences, FiniteSets, TLC

\* ------------------------------------------------------------------------
\* Bounds of the model
\* ------------------------------------------------------------------------
\* latest end_time (seconds after start_time) of a request in Spec
MaxEnd == 3
\* largest interval_seconds of a request in Spec
MaxInterval == 2
\* longest input of identify_passes in SpecSegment
MaxLen == 6
\* latest start_time of a request in SpecTicks
MaxStart == 2
\* longest window (end_time - start_time, seconds) of a request in SpecTicks
MaxWindow == 60
\* largest interval_seconds of a request in SpecTicks
MaxStep == 6
\* the number of samples after which a run of the sampler is followed no further
MaxSamples == 64
\* the longest list handed to identify_passes when it is called repeatedly
MaxRepeatLen == 2
\* the number of calls of identify_passes in one run of repeated calls
MaxCalls == 3
\* the number of satellites sampled in parallel
MaxTasks == 2

\* ------------------------------------------------------------------------
\* core/config.py
\* ------------------------------------------------------------------------
\* SIGNAL_PARAMS["frequency_ghz"] = 2.0, only used through fspl_db below
\* SIGNAL_PARAMS["satellite_eirp_dbw"] = 55
satellite_eirp_dbw == 55000
\* SIGNAL_PARAMS["receiver_gain_dbi"] = 15
receiver_gain_dbi == 15000
\* SIGNAL_PARAMS["system_losses_db"] = 3
system_losses_db == 3000
\* SIGNAL_PARAMS["noise_floor_dbm"] = -110
noise_floor_dbm == -110000
\* reports/generator.py: "interval_seconds=5" of the call of
\* generate_satellite_passes
ReportInterval == 5

\* LINK_QUALITY_THRESHOLDS (SNR in dB)
LINK_QUALITY_THRESHOLDS ==
    [excellent |-> 20000, good |-> 15000, fair |-> 10000, poor |-> 5000]

\* the dict LINK_QUALITY_THRESHOLDS as the running program finds it in
\* core/config.py: the values above, or the values of a recalibration
VARIABLE thresholds

\* a recalibrated core/config.py: every tier asks for 2.5 dB more
Recalibrated ==
    [excellent |-> 22500, good |-> 17500, fair |-> 12500, poor |-> 7500]

\* ------------------------------------------------------------------------
\* Python values
\* ------------------------------------------------------------------------
None == << >>

Some(v) == << v >>

IsNone(x) == x = << >>

\* round(x, 2): the nearest multiple of 0.01 (10 thousandths), a tie going
\* to the even hundredth.  \div and % are floor division and its remainder,
\* so the same text serves negative x (round(-0.004, 2) is 0).
Round2(x) ==
    LET q == x \div 10
        r == x % 10
    IN  IF r < 5 THEN q * 10
        ELSE IF r > 5 THEN (q + 1) * 10
        ELSE IF q % 2 = 0 THEN q * 10 ELSE (q + 1) * 10

\* ------------------------------------------------------------------------
\* core/calculations.py : calculate_signal_strength
\* ------------------------------------------------------------------------
\* The slant ranges (thousandths of a km) the model feeds to the link
\* budget: three low-Earth-orbit ranges and the ranges at which, above 10
\* degrees of elevation, the SNR is 25, 20.001, 20, 19.999, 19.996, 17, 15,
\* 14.999, 12, 10, 9.999, 7, 5, 4.999 and 2 dB.
Ranges ==
    { 600000, 1000000, 2500000,
      11925000, 21204000, 21207000, 21209000, 21216000, 29955000,
      37711000, 37716000, 53268000, 67061000, 67069000, 94726000,
      119253000, 119267000, 168450000 }

\* fspl_db = 20*log10(range_km) + 20*log10(frequency_mhz) + 32.45 with
\* frequency_mhz = 2000, tabulated on Ranges (to the thousandth of a dB).
fspl_db(range_km) ==
    CASE range_km = 600000    -> 154034
      [] range_km = 1000000   -> 158471
      [] range_km = 2500000   -> 166429
      [] range_km = 11925000  -> 180000
      [] range_km = 21204000  -> 184999
      [] range_km = 21207000  -> 185000
      [] range_km = 21209000  -> 185001
      [] range_km = 21216000  -> 185004
      [] range_km = 29955000  -> 188000
      [] range_km = 37711000  -> 190000
      [] range_km = 37716000  -> 190001
      [] range_km = 53268000  -> 193000
      [] range_km = 67061000  -> 195000
      [] range_km = 67069000  -> 195001
      [] range_km = 94726000  -> 198000
      [] range_km = 119253000 -> 200000
      [] range_km = 119267000 -> 200001
      [] range_km = 168450000 -> 203000

\* atm_loss_db with the breakpoint at 9 degrees
atm_loss_db_early(elevation_deg) ==
    IF elevation_deg < 9000
    THEN 2000 + (10000 - elevation_deg) \div 2
    ELSE 2000

\* atm_loss_db with the attenuation growing with the elevation below 10
\* degrees
atm_loss_db_growing(elevation_deg) ==
    IF elevation_deg < 10000
    THEN 2000 + elevation_deg \div 2
    ELSE 2000

\* Atmospheric attenuation (increases at low elevation angles)
atm_loss_db(elevation_deg) ==
    IF elevation_deg < 10000
    THEN 2000 + (10000 - elevation_deg) \div 2
    ELSE 2000

\* total_path_loss_db with the system losses left out
total_path_loss_db_no_system(elevation_deg, range_km) ==
    fspl_db(range_km) + atm_loss_db(elevation_deg)

\* Total path loss
total_path_loss_db(elevation_deg, range_km) ==
    fspl_db(range_km) + atm_loss_db(elevation_deg) + system_losses_db

\* P_rx = EIRP - Path_Loss + Receiver_Gain, the EIRP converted to dBm
received_power_dbm(elevation_deg, range_km) ==
    (satellite_eirp_dbw + 30000)
        - total_path_loss_db(elevation_deg, range_km) + receiver_gain_dbi

\* Signal-to-Noise Ratio
snr_db(elevation_deg, range_km) ==
    received_power_dbm(elevation_deg, range_km) - noise_floor_dbm

\* link_quality with strict comparisons
link_quality_strict(snr) ==
    IF snr > thresholds.excellent THEN "Excellent"
    ELSE IF snr > thresholds.good THEN "Good"
    ELSE IF snr > thresholds.fair THEN "Fair"
    ELSE IF snr > thresholds.poor THEN "Poor"
    ELSE "Very Poor"

\* Link quality assessment
link_quality(snr) ==
    IF snr >= thresholds.excellent THEN "Excellent"
    ELSE IF snr >= thresholds.good THEN "Good"
    ELSE IF snr >= thresholds.fair THEN "Fair"
    ELSE IF snr >= thresholds.poor THEN "Poor"
    ELSE "Very Poor"

\* below_horizon with the cut made at the horizon itself
below_horizon_inclusive(elevation_deg) == elevation_deg <= 0

\* below_horizon with an elevation mask of 5 degrees
below_horizon_masked(elevation_deg) == elevation_deg < 5000

\* the test that sends a call to the "No Signal" return
below_horizon(elevation_deg) == elevation_deg < 0

calculate_signal_strength(elevation_deg, range_km, azimuth_deg) ==
    IF below_horizon(elevation_deg)
    THEN [ received_power_dbm  |-> None,
           snr_db              |-> None,
           link_quality        |-> "No Signal",
           path_loss_db        |-> None,
           atmospheric_loss_db |-> None ]
    ELSE [ received_power_dbm  |->
               Some(Round2(received_power_dbm(elevation_deg, range_km))),
           snr_db              |->
               Some(Round2(snr_db(elevation_deg, range_km))),
           link_quality        |->
               link_quality(snr_db(elevation_deg, range_km)),
           path_loss_db        |->
               Some(Round2(total_path_loss_db(elevation_deg, range_km))),
           atmospheric_loss_db |->
               Some(Round2(atm_loss_db(elevation_deg))) ]

\* ------------------------------------------------------------------------
\* State
\* ------------------------------------------------------------------------
VARIABLES
    satellite,         \* the EarthSatellite argument, abstracted to the set
                       \*   of topocentric observations [alt, az, km] that
                       \*   propagating it can give at a tick
    start_time,        \* arguments of generate_satellite_passes
    end_time,
    interval_seconds,
    current_time,      \* generate_satellite_passes: the loop variable
    positions,         \* generate_satellite_passes: the list being built,
                       \*   then the argument of identify_passes
    altaz,             \* the (alt, az, distance) that topocentric.altaz()
                       \*   returned at each tick, unrounded
    passes,            \* identify_passes: locals
    in_pass,
    current_pass,
    next_pos,          \* identify_passes: index of the next element that
                       \*   "for pos in positions" will read
    table,             \* _generate_pass_table_markdown: one row per pass
    link_calls,        \* the last two calls of calculate_signal_strength
                       \*   made on its own: arguments and returned dict
    details,           \* _generate_detailed_pass_section: the statistics
                       \*   of each pass
    segment_calls,     \* the calls of identify_passes that have returned:
                       \*   argument and returned list
    fleet,             \* generate_trajectory_report: the satellites dict,
                       \*   in iteration order
    sat_index,         \* generate_trajectory_report: the position of
                       \*   "for sat_name, sat_info in satellites.items()"
    tle,               \* generate_trajectory_report: name, line1, line2
    all_satellite_data,\* generate_trajectory_report: the data gathered
    tasks,             \* the invocations of generate_satellite_passes that
                       \*   run in parallel, each with its own arguments and
                       \*   locals
    args,              \* cli/pipeline.py: the parsed command line
    directory,         \* the satellite data files in the working directory
    log,               \* cli/pipeline.py: the steps started so far, each
                       \*   with its exit code, and the summary once printed
    report_source,     \* generate_pass_report: the data file it loads
    catalog_number,    \* fetch_tle_data: the argument norad_id
    responses,         \* fetch_tle_data: what requests.get gave to each
                       \*   request made so far
    fetch_result,      \* fetch_tle_data: how the call ended, once it has
    generate_button,   \* SatelliteAnalysisApp: the button is sensitive
    idle_sources,      \* the callbacks queued with GLib.idle_add; a
                       \*   callback stays queued until it has returned
    dialog,            \* the message of the error dialog that is open
    running,           \* the handler that waits in show_error_dialog
    statusbar,         \* SatelliteAnalysisApp: the message pushed last
    entries,           \* SatelliteAnalysisApp: the text of the entries
                       \*   and the satellite selected
    current_passes,    \* SatelliteAnalysisApp: self.current_passes
    pc                 \* position of the run

vars == << thresholds, satellite, start_time, end_time, interval_seconds,
           current_time, positions, altaz, passes, in_pass, current_pass,
           next_pos, table, link_calls, details, segment_calls, fleet,
           sat_index, tle, all_satellite_data, tasks, args, directory, log,
           report_source, catalog_number, responses, fetch_result,
           generate_button,
           idle_sources, dialog, running, statusbar, entries,
           current_passes, pc >>

\* the state of a call of fetch_tle_data
fetch_vars == << catalog_number, responses, fetch_result >>

\* the state of the desktop application
gui_vars == << generate_button, idle_sources, dialog, running, statusbar,
              entries, current_passes >>

\* the state of the front ends
front_end_vars == << args, directory, log, report_source, fetch_vars,
                    gui_vars >>

\* the state of the callers and of the configuration, which the sampler,
\* the segmenter, the pass table and the link budget leave alone
caller_vars == << thresholds, details, segment_calls, fleet, sat_index, tle,
                 all_satellite_data, tasks, front_end_vars >>

request_vars == << satellite, start_time, end_time, interval_seconds >>

sampler_vars == << current_time, positions, altaz >>

segmenter_vars == << passes, in_pass, current_pass, next_pos >>

\* ------------------------------------------------------------------------
\* The propagator (skyfield, external): what a tick may observe
\* ------------------------------------------------------------------------
\* Observations of a low-Earth-orbit pass: well below the horizon, just
\* below it, exactly on it, just above it, at the 10 degree breakpoint of
\* the atmospheric loss, and high in the sky.
Sky ==
    { [alt |-> -5000, az |-> 0,      km |-> 2500000],
      [alt |-> -4,    az |-> 90000,  km |-> 2500000],
      [alt |-> 0,     az |-> 180000, km |-> 1000000],
      [alt |-> 4,     az |-> 270000, km |-> 1000000],
      [alt |-> 10000, az |-> 45000,  km |-> 600000],
      [alt |-> 45000, az |-> 359996, km |-> 21216000] }

\* A satellite that stays high in the sky (used for long windows).
Overhead == { [alt |-> 45000, az |-> 45000, km |-> 600000] }

\* The elevation, to the even thousandth of a degree, of a satellite that
\* rises at a constant rate from -5 degrees to 45 degrees in 150 s and falls
\* back to -5 degrees in the next 150 s.
pass_profile(t) ==
    LET rising == IF t <= 150 THEN t ELSE 300 - t
    IN  2 * ((rising * 500) \div 3) - 5000

\* A satellite that makes this single pass at the constant range range_km.
SinglePass(range_km) ==
    { [ at |-> t, alt |-> pass_profile(t), az |-> 180000, km |-> range_km ] :
      t \in 0..300 }

\* ------------------------------------------------------------------------
\* core/calculations.py : generate_satellite_passes
\* ------------------------------------------------------------------------
\* is_visible with the horizon itself counted as visible
is_visible_inclusive(alt) == alt >= 0

\* is_visible taken from the rounded elevation
is_visible_rounded(alt) == Round2(alt) > 0

\* "visible": bool(alt.degrees > 0)
is_visible(alt) == alt > 0

\* the dict built for one tick
position_data(now, obs) ==
    [ timestamp     |-> now,
      elevation_deg |-> Round2(obs.alt),
      azimuth_deg   |-> Round2(obs.az),
      range_km      |-> Round2(obs.km),
      visible       |-> is_visible(obs.alt) ]
    @@ calculate_signal_strength(obs.alt, obs.km, obs.az)

\* more_ticks with the end of the window excluded
more_ticks_exclusive(now, last) == now < last

\* the loop test
more_ticks(now, last) == now <= last

\* what propagating the satellite to the time "now" can give: an
\* observation that carries a time is the one of that time only
Observable(sat, now) ==
    { obs \in sat : "at" \notin DOMAIN obs \/ obs.at = now }

\* one iteration of "while current_time <= end_time"
SamplerTick ==
    /\ pc = "sampling"
    /\ more_ticks(current_time, end_time)
    /\ Len(positions) < MaxSamples
    /\ \E obs \in Observable(satellite, current_time) :
          /\ positions' = Append(positions, position_data(current_time, obs))
          /\ altaz' = Append(altaz, obs)
    /\ current_time' = current_time + interval_seconds
    /\ UNCHANGED << caller_vars, request_vars, segmenter_vars, table, link_calls, pc >>

\* what a float that is not a number is written as
NaN == "nan"

\* the observation of a tick at which the propagator cannot evaluate the
\* position: skyfield raises nothing, it hands back not-a-number
\* coordinates and sets the message of the position
Breakdown ==
    [ alt |-> NaN, az |-> NaN, km |-> NaN, message |-> "propagation failed" ]

Failed(obs) == "message" \in DOMAIN obs

\* calculate_signal_strength on not-a-number arguments: "elevation_deg < 0"
\* and "elevation_deg < 10" are both False, so the budget is computed with
\* atm_loss_db = 2.0; the path loss, the power and the SNR are not numbers;
\* each "snr_db >= threshold" is False, so the quality is the last branch
nan_signal_strength ==
    [ received_power_dbm  |-> Some(NaN),
      snr_db              |-> Some(NaN),
      link_quality        |-> "Very Poor",
      path_loss_db        |-> Some(NaN),
      atmospheric_loss_db |-> Some(2000) ]

\* the dict built for a tick whose observation is not a number:
\* round(nan, 2) is nan and bool(nan > 0) is False
nan_position_data(now) ==
    [ timestamp     |-> now,
      elevation_deg |-> NaN,
      azimuth_deg   |-> NaN,
      range_km      |-> NaN,
      visible       |-> FALSE ]
    @@ nan_signal_strength

\* one iteration of the loop at a tick where the propagator breaks down
SamplerTickFailed ==
    /\ pc = "sampling"
    /\ more_ticks(current_time, end_time)
    /\ Len(positions) < MaxSamples
    /\ positions' = Append(positions, nan_position_data(current_time))
    /\ altaz' = Append(altaz, Breakdown)
    /\ current_time' = current_time + interval_seconds
    /\ UNCHANGED << caller_vars, request_vars, segmenter_vars, table, link_calls, pc >>

\* the loop test fails: "return positions"
SamplerReturn ==
    /\ pc = "sampling"
    /\ ~ more_ticks(current_time, end_time)
    /\ pc' = "sampled"
    /\ UNCHANGED << caller_vars, request_vars, sampler_vars, segmenter_vars, table,
                    link_calls >>

\* ------------------------------------------------------------------------
\* analysis/passes.py : identify_passes
\* ------------------------------------------------------------------------
\* ScanBegin with the list of passes kept from the previous call
ScanBeginKeepsPasses ==
    /\ pc = "sampled"
    /\ passes' = passes
    /\ in_pass' = FALSE
    /\ current_pass' = << >>
    /\ next_pos' = 1
    /\ pc' = "segmenting"
    /\ UNCHANGED << caller_vars, request_vars, sampler_vars, table, link_calls >>

\* passes = [] ; in_pass = False ; current_pass = []
ScanBegin ==
    /\ pc = "sampled"
    /\ passes' = << >>
    /\ in_pass' = FALSE
    /\ current_pass' = << >>
    /\ next_pos' = 1
    /\ pc' = "segmenting"
    /\ UNCHANGED << caller_vars, request_vars, sampler_vars, table, link_calls >>

\* ScanOpen with the pass opened empty: its first sample is left out
ScanOpenEmpty ==
    /\ pc = "segmenting"
    /\ next_pos <= Len(positions)
    /\ positions[next_pos].visible /\ ~ in_pass
    /\ in_pass' = TRUE
    /\ current_pass' = << >>
    /\ next_pos' = next_pos + 1
    /\ UNCHANGED << caller_vars, request_vars, sampler_vars, passes, table, link_calls,
                    pc >>

\* if pos["visible"] and not in_pass
ScanOpen ==
    /\ pc = "segmenting"
    /\ next_pos <= Len(positions)
    /\ positions[next_pos].visible /\ ~ in_pass
    /\ in_pass' = TRUE
    /\ current_pass' = << positions[next_pos] >>
    /\ next_pos' = next_pos + 1
    /\ UNCHANGED << caller_vars, request_vars, sampler_vars, passes, table, link_calls,
                    pc >>

\* ScanAppend with the append forgotten: the sample is read and dropped
ScanAppendDropsSample ==
    /\ pc = "segmenting"
    /\ next_pos <= Len(positions)
    /\ positions[next_pos].visible /\ in_pass
    /\ next_pos' = next_pos + 1
    /\ UNCHANGED << caller_vars, request_vars, sampler_vars, passes, in_pass,
                    current_pass, table, link_calls, pc >>

\* elif pos["visible"] and in_pass
ScanAppend ==
    /\ pc = "segmenting"
    /\ next_pos <= Len(positions)
    /\ positions[next_pos].visible /\ in_pass
    /\ current_pass' = Append(current_pass, positions[next_pos])
    /\ next_pos' = next_pos + 1
    /\ UNCHANGED << caller_vars, request_vars, sampler_vars, passes, in_pass, table,
                    link_calls, pc >>

\* the list of passes after the pass under way has ended
closed_passes(done, cur) == IF Len(cur) > 0 THEN Append(done, cur) ELSE done

\* ScanClose with the finished pass thrown away instead of appended
ScanCloseDropsPass ==
    /\ pc = "segmenting"
    /\ next_pos <= Len(positions)
    /\ ~ positions[next_pos].visible /\ in_pass
    /\ in_pass' = FALSE
    /\ passes' = passes
    /\ current_pass' = << >>
    /\ next_pos' = next_pos + 1
    /\ UNCHANGED << caller_vars, request_vars, sampler_vars, table, link_calls, pc >>

\* elif not pos["visible"] and in_pass
ScanClose ==
    /\ pc = "segmenting"
    /\ next_pos <= Len(positions)
    /\ ~ positions[next_pos].visible /\ in_pass
    /\ in_pass' = FALSE
    /\ passes' = closed_passes(passes, current_pass)
    /\ current_pass' = << >>
    /\ next_pos' = next_pos + 1
    /\ UNCHANGED << caller_vars, request_vars, sampler_vars, table, link_calls, pc >>

\* ScanSkip with the first test of the loop written "if not in_pass": a
\* non-visible sample opens a pass
ScanSkipOpensPass ==
    /\ pc = "segmenting"
    /\ next_pos <= Len(positions)
    /\ ~ positions[next_pos].visible /\ ~ in_pass
    /\ in_pass' = TRUE
    /\ current_pass' = << positions[next_pos] >>
    /\ next_pos' = next_pos + 1
    /\ UNCHANGED << caller_vars, request_vars, sampler_vars, passes, table, link_calls,
                    pc >>

\* none of the three tests holds: the iteration does nothing
ScanSkip ==
    /\ pc = "segmenting"
    /\ next_pos <= Len(positions)
    /\ ~ positions[next_pos].visible /\ ~ in_pass
    /\ next_pos' = next_pos + 1
    /\ UNCHANGED << caller_vars, request_vars, sampler_vars, passes, in_pass,
                    current_pass, table, link_calls, pc >>

\* final_passes without the statement after the loop: a pass still under
\* way at the end of the input is lost
final_passes_unclosed(done, cur, inside) == done

\* the list returned when the loop is over
final_passes(done, cur, inside) ==
    IF inside /\ Len(cur) > 0 THEN Append(done, cur) ELSE done

\* the loop is over: "if in_pass and len(current_pass) > 0" ; return passes
ScanReturn ==
    /\ pc = "segmenting"
    /\ next_pos > Len(positions)
    /\ passes' = final_passes(passes, current_pass, in_pass)
    /\ pc' = "segmented"
    /\ UNCHANGED << caller_vars, request_vars, sampler_vars, in_pass, current_pass,
                    next_pos, table, link_calls >>

\* ------------------------------------------------------------------------
\* reports/generator.py : _generate_pass_table_markdown
\* ------------------------------------------------------------------------
\* max(values) of a non-empty sequence of numbers
SeqMax(values) ==
    CHOOSE m \in { values[i] : i \in 1..Len(values) } :
        \A i \in 1..Len(values) : values[i] <= m

RECURSIVE SeqSum(_)
SeqSum(values) ==
    IF values = << >> THEN 0 ELSE Head(values) + SeqSum(Tail(values))

\* np.mean(values), to the thousandth
SeqMean(values) == SeqSum(values) \div Len(values)

\* the numbers max() and np.mean() can work on: no None among them
all_numbers(pass_data) ==
    \A i \in 1..Len(pass_data) :
        /\ ~ IsNone(pass_data[i].received_power_dbm)
        /\ ~ IsNone(pass_data[i].snr_db)

\* the statistics of one row of the table
pass_row(pass_data) ==
    LET signal_powers ==
            [i \in 1..Len(pass_data) |-> pass_data[i].received_power_dbm[1]]
        snr_values ==
            [i \in 1..Len(pass_data) |-> pass_data[i].snr_db[1]]
        elevations ==
            [i \in 1..Len(pass_data) |-> pass_data[i].elevation_deg]
    IN  [ start_time    |-> pass_data[1].timestamp,
          end_time      |-> pass_data[Len(pass_data)].timestamp,
          duration_secs |-> Len(pass_data) * 5,
          max_elevation |-> SeqMax(elevations),
          max_signal    |-> SeqMax(signal_powers),
          avg_signal    |-> SeqMean(signal_powers),
          peak_snr      |-> SeqMax(snr_values) ]

\* the table of all passes; max() and the number formats raise TypeError on
\* a None, and pass_data[0] raises IndexError on an empty pass
PassTable ==
    /\ pc = "segmented"
    /\ IF \E i \in 1..Len(passes) : Len(passes[i]) = 0
       THEN pc' = "IndexError" /\ table' = table
       ELSE IF \E i \in 1..Len(passes) : ~ all_numbers(passes[i])
       THEN pc' = "TypeError" /\ table' = table
       ELSE /\ table' = [i \in 1..Len(passes) |-> pass_row(passes[i])]
            /\ pc' = "done"
    /\ UNCHANGED << caller_vars, request_vars, sampler_vars, segmenter_vars, link_calls >>

\* ------------------------------------------------------------------------
\* reports/generator.py : _generate_detailed_pass_section
\* ------------------------------------------------------------------------
\* "Determine link quality at peak": the chain of comparisons of the report
peak_quality(peak_snr) ==
    IF peak_snr >= 20000 THEN "Excellent"
    ELSE IF peak_snr >= 15000 THEN "Good"
    ELSE IF peak_snr >= 10000 THEN "Fair"
    ELSE IF peak_snr >= 5000 THEN "Poor"
    ELSE "Very Poor"

\* the statistics of the detailed analysis of one pass
pass_detail(pass_data) ==
    LET snr_values ==
            [i \in 1..Len(pass_data) |-> pass_data[i].snr_db[1]]
        peak_snr == SeqMax(snr_values)
    IN  [ duration_secs |-> Len(pass_data) * 5,
          peak_snr      |-> peak_snr,
          avg_snr       |-> SeqMean(snr_values),
          quality       |-> peak_quality(peak_snr) ]

\* the loop over the passes that follows the summary table
PassDetails ==
    /\ pc = "done"
    /\ details' = [i \in 1..Len(passes) |-> pass_detail(passes[i])]
    /\ pc' = "detailed"
    /\ UNCHANGED << front_end_vars,
                    thresholds, segment_calls, fleet, sat_index, tle,
                    all_satellite_data, tasks, request_vars, sampler_vars,
                    segmenter_vars, table, link_calls >>

\* ------------------------------------------------------------------------
\* examples/signal_analysis.py : calculate_signal_strength called on its own
\* ------------------------------------------------------------------------
\* the elevations (thousandths of a degree) the model feeds to the link
\* budget; they are even, so that (10 - elevation) * 0.5 is a whole number
\* of thousandths
Elevations == { -5000, -4, 0, 4, 5000, 9996, 10000, 10004, 45000 }

\* the ranges the model feeds to the link budget called on its own
LinkRanges ==
    { 600000, 11925000, 21207000, 21216000, 29955000, 37711000, 37716000,
      53268000, 67061000, 94726000, 119253000, 168450000 }

\* the two most recent elements of a sequence
LastTwo(s) == IF Len(s) <= 2 THEN s ELSE SubSeq(s, Len(s) - 1, Len(s))

\* one call: "signal = calculate_signal_strength(elev, range_km, 0)"
LinkCall ==
    /\ pc = "link"
    /\ \E elev \in Elevations, range_km \in LinkRanges :
          link_calls' =
              LastTwo(Append(link_calls,
                  [ elevation_deg |-> elev,
                    range_km      |-> range_km,
                    signal        |->
                        calculate_signal_strength(elev, range_km, 0) ]))
    /\ UNCHANGED << caller_vars, request_vars, sampler_vars, segmenter_vars, table, pc >>

\* ------------------------------------------------------------------------
\* Specifications
\* ------------------------------------------------------------------------
\* the state of the parts of the program that a run does not enter
PipelineIdle ==
    /\ args = None
    /\ directory = {}
    /\ log = << >>
    /\ report_source = None

\* no call of fetch_tle_data is made
FetchIdle ==
    /\ catalog_number = 0
    /\ responses = << >>
    /\ fetch_result = None

\* the desktop application is not started
GuiIdle ==
    /\ generate_button = TRUE
    /\ idle_sources = << >>
    /\ dialog = None
    /\ running = None
    /\ statusbar = ""
    /\ entries = None
    /\ current_passes = None

FrontEndIdle ==
    /\ PipelineIdle
    /\ FetchIdle
    /\ GuiIdle

Elsewhere ==
    /\ tasks = << >>
    /\ FrontEndIdle

\* the state the locals of the later stages have before they are assigned
Idle ==
    /\ current_time = start_time
    /\ positions = << >>
    /\ altaz = << >>
    /\ passes = << >>
    /\ in_pass = FALSE
    /\ current_pass = << >>
    /\ next_pos = 1
    /\ table = << >>
    /\ link_calls = << >>
    /\ details = << >>
    /\ segment_calls = << >>
    /\ fleet = << >>
    /\ sat_index = 0
    /\ tle = None
    /\ all_satellite_data = << >>
    /\ Elsewhere

\* the state of the core when a run stays in a front end
CoreIdle ==
    /\ thresholds = LINK_QUALITY_THRESHOLDS
    /\ satellite = {}
    /\ start_time = 0
    /\ end_time = 0
    /\ interval_seconds = ReportInterval
    /\ current_time = start_time
    /\ positions = << >>
    /\ altaz = << >>
    /\ passes = << >>
    /\ in_pass = FALSE
    /\ current_pass = << >>
    /\ next_pos = 1
    /\ table = << >>
    /\ link_calls = << >>
    /\ details = << >>
    /\ segment_calls = << >>
    /\ fleet = << >>
    /\ sat_index = 0
    /\ tle = None
    /\ all_satellite_data = << >>
    /\ tasks = << >>

\* Spec: a short window of a low-Earth-orbit satellite is sampled, segmented
\* into passes and tabulated.
Init ==
    /\ thresholds \in { LINK_QUALITY_THRESHOLDS, Recalibrated }
    /\ satellite = Sky
    /\ start_time = 0
    /\ end_time \in 0..MaxEnd
    /\ interval_seconds \in 1..MaxInterval
    /\ pc = "sampling"
    /\ Idle

Next ==
    \/ SamplerTick
    \/ SamplerReturn
    \/ ScanBegin
    \/ ScanOpen
    \/ ScanAppend
    \/ ScanClose
    \/ ScanSkip
    \/ ScanReturn
    \/ PassTable
    \/ PassDetails

Spec == Init /\ [][Next]_vars

\* SpecTicks: a long window of a satellite that stays overhead is sampled.
InitTicks ==
    /\ thresholds = LINK_QUALITY_THRESHOLDS
    /\ satellite = Overhead
    /\ start_time \in 0..MaxStart
    /\ end_time \in start_time..(start_time + MaxWindow)
    /\ interval_seconds \in 1..MaxStep
    /\ pc = "sampling"
    /\ Idle

NextTicks ==
    \/ SamplerTick
    \/ SamplerReturn

SpecTicks == InitTicks /\ [][NextTicks]_vars

\* SpecRequest: the sampler is called as a library function with any
\* interval, positive or not, and any window, reversed or not.
InitRequest ==
    /\ thresholds = LINK_QUALITY_THRESHOLDS
    /\ satellite = Overhead
    /\ start_time = 0
    /\ end_time \in (0 - MaxEnd)..MaxEnd
    /\ interval_seconds \in (0 - MaxInterval)..MaxInterval
    /\ pc = "sampling"
    /\ Idle

NextRequest ==
    \/ SamplerTick
    \/ SamplerReturn

SpecRequest == InitRequest /\ [][NextRequest]_vars

\* SpecFailure: a short window is sampled for a satellite whose propagation
\* may break down at any tick.
InitFailure ==
    /\ thresholds = LINK_QUALITY_THRESHOLDS
    /\ satellite = Sky
    /\ start_time = 0
    /\ end_time \in 0..MaxEnd
    /\ interval_seconds \in 1..MaxInterval
    /\ pc = "sampling"
    /\ Idle

NextFailure ==
    \/ SamplerTick
    \/ SamplerTickFailed
    \/ SamplerReturn

SpecFailure == InitFailure /\ [][NextFailure]_vars

\* SpecScenario: the single pass of 300 s is sampled every 5 s, at a
\* constant range, then segmented and tabulated.
InitScenario ==
    /\ thresholds = LINK_QUALITY_THRESHOLDS
    /\ satellite \in { SinglePass(600000), SinglePass(21216000) }
    /\ start_time = 0
    /\ end_time = 300
    /\ interval_seconds = ReportInterval
    /\ pc = "sampling"
    /\ Idle

NextScenario ==
    \/ SamplerTick
    \/ SamplerReturn
    \/ ScanBegin
    \/ ScanOpen
    \/ ScanAppend
    \/ ScanClose
    \/ ScanSkip
    \/ ScanReturn
    \/ PassTable

SpecScenario == InitScenario /\ [][NextScenario]_vars

\* SpecLink: the link budget is called on its own, again and again.
InitLink ==
    /\ thresholds = LINK_QUALITY_THRESHOLDS
    /\ satellite = {}
    /\ start_time = 0
    /\ end_time = 0
    /\ interval_seconds = 5
    /\ pc = "link"
    /\ Idle

NextLink == LinkCall

SpecLink == InitLink /\ [][NextLink]_vars

\* SpecSegment: identify_passes is called on a list of up to MaxLen samples,
\* each one above or below the horizon; the empty list is among them.
Horizon ==
    { [alt |-> -5000, az |-> 0,     km |-> 2500000],
      [alt |-> 10000, az |-> 45000, km |-> 600000] }

InitSegment ==
    /\ thresholds = LINK_QUALITY_THRESHOLDS
    /\ satellite = Horizon
    /\ start_time = 0
    /\ interval_seconds = 5
    /\ \E n \in 0..MaxLen :
          /\ end_time = (n - 1) * interval_seconds
          /\ current_time = n * interval_seconds
          /\ \E seen \in [1..n -> satellite] :
                /\ altaz = seen
                /\ positions =
                       [i \in 1..n |->
                           position_data((i - 1) * interval_seconds, seen[i])]
    /\ passes = << >>
    /\ in_pass = FALSE
    /\ current_pass = << >>
    /\ next_pos = 1
    /\ table = << >>
    /\ link_calls = << >>
    /\ details = << >>
    /\ segment_calls = << >>
    /\ fleet = << >>
    /\ sat_index = 0
    /\ tle = None
    /\ all_satellite_data = << >>
    /\ Elsewhere
    /\ pc = "sampled"

NextSegment ==
    \/ ScanBegin
    \/ ScanOpen
    \/ ScanAppend
    \/ ScanClose
    \/ ScanSkip
    \/ ScanReturn

SpecSegment == InitSegment /\ [][NextSegment]_vars

\* ------------------------------------------------------------------------
\* reports/generator.py : generate_pass_report, identify_passes called for
\* one list of samples after another
\* ------------------------------------------------------------------------
\* the list of samples of a sequence of observations, one every interval
samples_of(seen) ==
    [i \in 1..Len(seen) |->
        position_data((i - 1) * interval_seconds, seen[i])]

\* the call has returned; the caller keeps the result and calls
\* identify_passes on the next list, which may be one it has passed before
SegmentAgain ==
    /\ pc = "segmented"
    /\ Len(segment_calls) < MaxCalls - 1
    /\ segment_calls' =
           Append(segment_calls, [ input |-> positions, output |-> passes ])
    /\ \E n \in 0..MaxRepeatLen :
          \E seen \in [1..n -> satellite] :
              /\ altaz' = seen
              /\ positions' = samples_of(seen)
    /\ pc' = "sampled"
    /\ UNCHANGED << front_end_vars,
                    thresholds, details, fleet, sat_index, tle,
                    all_satellite_data, tasks, request_vars, current_time,
                    segmenter_vars, table, link_calls >>

\* SpecRepeat: identify_passes is called MaxCalls times in a row on lists of
\* up to MaxRepeatLen samples, repeated or not.
InitRepeat ==
    /\ thresholds = LINK_QUALITY_THRESHOLDS
    /\ satellite = Horizon
    /\ start_time = 0
    /\ end_time = 0
    /\ interval_seconds = ReportInterval
    /\ current_time = 0
    /\ \E n \in 0..MaxRepeatLen :
          \E seen \in [1..n -> satellite] :
              /\ altaz = seen
              /\ positions = samples_of(seen)
    /\ passes = << >>
    /\ in_pass = FALSE
    /\ current_pass = << >>
    /\ next_pos = 1
    /\ table = << >>
    /\ link_calls = << >>
    /\ details = << >>
    /\ segment_calls = << >>
    /\ fleet = << >>
    /\ sat_index = 0
    /\ tle = None
    /\ all_satellite_data = << >>
    /\ Elsewhere
    /\ pc = "sampled"

NextRepeat ==
    \/ ScanBegin
    \/ ScanOpen
    \/ ScanAppend
    \/ ScanClose
    \/ ScanSkip
    \/ ScanReturn
    \/ SegmentAgain

SpecRepeat == InitRepeat /\ [][NextRepeat]_vars

\* ------------------------------------------------------------------------
\* reports/generator.py : generate_trajectory_report, core/tle.py
\* ------------------------------------------------------------------------
\* the first two satellites of the catalog
AST_SATELLITES ==
    << [ name |-> "BLUEWALKER 3", norad_id |-> 53807 ],
       [ name |-> "BLUEBIRD-A",   norad_id |-> 61045 ] >>

\* what fetch_tle_data can return for a satellite: (None, None, None) when
\* nothing is found or the request fails, the three stripped lines of the
\* answer otherwise; a line of the answer may be blank
ProviderAnswers(sat) ==
    { [ name |-> None, line1 |-> None, line2 |-> None ],
      [ name  |-> Some(sat.name),
        line1 |-> Some("1 " \o ToString(sat.norad_id) \o "U 22059BF"),
        line2 |-> Some("2 " \o ToString(sat.norad_id) \o "  53.2012") ],
      [ name  |-> Some(sat.name),
        line1 |-> Some("1 " \o ToString(sat.norad_id) \o "U 22059BF"),
        line2 |-> Some("") ] }

\* create_simulated_tle
create_simulated_tle(norad_id, satellite_name) ==
    [ name  |-> Some(satellite_name),
      line1 |-> Some("1 " \o ToString(norad_id)
                     \o "U 22059A   25341.50000000  .00000000  00000-0  00000-0 0  9999"),
      line2 |-> Some("2 " \o ToString(norad_id)
                     \o "  53.0000  95.0000 0001000  90.0000 270.0000 15.00000000000000") ]

\* "not line": None and the empty string
falsy(line) == IsNone(line) \/ line = Some("")

\* missing_elements that looks at line1 only
missing_elements_line1_only(fetched) == falsy(fetched.line1)

\* "if not line1 or not line2"
missing_elements(fetched) == falsy(fetched.line1) \/ falsy(fetched.line2)

\* the head of one iteration of "for sat_name, sat_info in satellites.items()":
\* the elements are fetched and, when missing, simulated; the satellite is
\* built and generate_satellite_passes is entered
FleetNext ==
    /\ pc = "fleet"
    /\ sat_index < Len(fleet)
    /\ sat_index' = sat_index + 1
    /\ LET sat == fleet[sat_index + 1]
           fetched == sat.provider
       IN  tle' = IF missing_elements(fetched)
                  THEN create_simulated_tle(sat.norad_id, sat.name)
                  ELSE fetched
    /\ satellite' = Horizon
    /\ interval_seconds' = ReportInterval
    /\ current_time' = start_time
    /\ positions' = << >>
    /\ altaz' = << >>
    /\ pc' = "sampling"
    /\ UNCHANGED << front_end_vars,
                    thresholds, details, segment_calls, fleet,
                    all_satellite_data, tasks, start_time, end_time,
                    segmenter_vars, table, link_calls >>

\* the samples of a list that are visible
visible_positions(samples) == SelectSeq(samples, LAMBDA p : p.visible)

\* the rest of the iteration: the data of the satellite is stored and its
\* report section is formatted; "{max_elevation_visible:.2f}" raises
\* TypeError when no sample is visible, max_elevation_visible being None
FleetStore ==
    /\ pc = "sampled"
    /\ sat_index >= 1
    /\ all_satellite_data' =
           Append(all_satellite_data,
                  [ name      |-> fleet[sat_index].name,
                    tle       |-> tle,
                    positions |-> positions ])
    /\ pc' = IF visible_positions(positions) = << >>
             THEN "TypeError"
             ELSE "fleet"
    /\ UNCHANGED << front_end_vars,
                    thresholds, details, segment_calls, fleet, sat_index,
                    tle, tasks, request_vars, sampler_vars, segmenter_vars,
                    table, link_calls >>

\* after the loop: the data of all satellites is written
FleetWrite ==
    /\ pc = "fleet"
    /\ sat_index = Len(fleet)
    /\ pc' = "written"
    /\ UNCHANGED << caller_vars, request_vars, sampler_vars, segmenter_vars,
                    table, link_calls >>

\* SpecFleet: the trajectory report is generated for a fleet of two
\* satellites over a window of one or two ticks; the provider may answer
\* or not for each satellite, and propagation may break down at any tick.
InitFleet ==
    /\ thresholds = LINK_QUALITY_THRESHOLDS
    /\ satellite = {}
    /\ start_time = 0
    /\ end_time \in 0..ReportInterval
    /\ interval_seconds = ReportInterval
    /\ current_time = start_time
    /\ positions = << >>
    /\ altaz = << >>
    /\ passes = << >>
    /\ in_pass = FALSE
    /\ current_pass = << >>
    /\ next_pos = 1
    /\ table = << >>
    /\ link_calls = << >>
    /\ details = << >>
    /\ segment_calls = << >>
    /\ fleet \in { [k \in 1..Len(AST_SATELLITES) |->
                       [ name     |-> AST_SATELLITES[k].name,
                         norad_id |-> AST_SATELLITES[k].norad_id,
                         provider |-> answers[k] ]] :
                   answers \in [1..Len(AST_SATELLITES) ->
                                   UNION { ProviderAnswers(AST_SATELLITES[j]) :
                                           j \in 1..Len(AST_SATELLITES) }] }
    /\ \A k \in 1..Len(fleet) :
          fleet[k].provider \in ProviderAnswers(AST_SATELLITES[k])
    /\ sat_index = 0
    /\ tle = None
    /\ all_satellite_data = << >>
    /\ Elsewhere
    /\ pc = "fleet"

NextFleet ==
    \/ FleetNext
    \/ SamplerTick
    \/ SamplerTickFailed
    \/ SamplerReturn
    \/ FleetStore
    \/ FleetWrite

SpecFleet == InitFleet /\ [][NextFleet]_vars

\* ------------------------------------------------------------------------
\* core/calculations.py : generate_satellite_passes run as parallel tasks
\* ------------------------------------------------------------------------
\* TaskTick with the loop variable kept in one place for all the tasks
TaskTickSharedClock ==
    /\ pc = "tasks"
    /\ \E k \in 1..Len(tasks) :
          /\ tasks[k].pc = "sampling"
          /\ more_ticks(current_time, end_time)
          /\ \E obs \in Observable(tasks[k].satellite, current_time) :
                tasks' =
                    [tasks EXCEPT
                        ![k].positions =
                            Append(@, position_data(current_time, obs))]
          /\ current_time' = current_time + interval_seconds
    /\ UNCHANGED << front_end_vars,
                    thresholds, details, segment_calls, fleet, sat_index, tle,
                    all_satellite_data, request_vars, positions, altaz,
                    segmenter_vars, table, link_calls, pc >>

\* one iteration of the loop in one task: current_time and positions are
\* locals of the invocation, the link budget reads the module constants
TaskTick ==
    /\ pc = "tasks"
    /\ \E k \in 1..Len(tasks) :
          /\ tasks[k].pc = "sampling"
          /\ more_ticks(tasks[k].current_time, end_time)
          /\ \E obs \in Observable(tasks[k].satellite, tasks[k].current_time) :
                tasks' =
                    [tasks EXCEPT
                        ![k].positions =
                            Append(@, position_data(tasks[k].current_time, obs)),
                        ![k].current_time = @ + interval_seconds]
          /\ current_time' = current_time
    /\ UNCHANGED << front_end_vars,
                    thresholds, details, segment_calls, fleet, sat_index, tle,
                    all_satellite_data, request_vars, positions, altaz,
                    segmenter_vars, table, link_calls, pc >>

\* the loop test fails in one task: "return positions"
TaskReturn ==
    /\ pc = "tasks"
    /\ \E k \in 1..Len(tasks) :
          /\ tasks[k].pc = "sampling"
          /\ ~ more_ticks(tasks[k].current_time, end_time)
          /\ tasks' = [tasks EXCEPT ![k].pc = "sampled"]
    /\ UNCHANGED << front_end_vars,
                    thresholds, details, segment_calls, fleet, sat_index, tle,
                    all_satellite_data, request_vars, sampler_vars,
                    segmenter_vars, table, link_calls, pc >>

\* SpecTasks: MaxTasks satellites, each making the single pass at one of two
\* ranges, are sampled over the same window by tasks that run in parallel.
InitTasks ==
    /\ thresholds = LINK_QUALITY_THRESHOLDS
    /\ satellite = {}
    /\ start_time = 0
    /\ end_time \in { ReportInterval * n : n \in 0..MaxLen }
    /\ interval_seconds = ReportInterval
    /\ current_time = start_time
    /\ positions = << >>
    /\ altaz = << >>
    /\ passes = << >>
    /\ in_pass = FALSE
    /\ current_pass = << >>
    /\ next_pos = 1
    /\ table = << >>
    /\ link_calls = << >>
    /\ details = << >>
    /\ segment_calls = << >>
    /\ fleet = << >>
    /\ sat_index = 0
    /\ tle = None
    /\ all_satellite_data = << >>
    /\ \E orbits \in [1..MaxTasks ->
                         { SinglePass(600000), SinglePass(21216000) }] :
          tasks = [k \in 1..MaxTasks |->
                      [ satellite    |-> orbits[k],
                        current_time |-> start_time,
                        positions    |-> << >>,
                        pc           |-> "sampling" ]]
    /\ FrontEndIdle
    /\ pc = "tasks"

NextTasks ==
    \/ TaskTick
    \/ TaskReturn

SpecTasks == InitTasks /\ [][NextTasks]_vars

\* ------------------------------------------------------------------------
\* cli/pipeline.py : main, run_analysis_pipeline ; the data file of
\* reports/generator.py : generate_pass_report
\* ------------------------------------------------------------------------
\* the dates the pipeline is run for
Dates ==
    { [ year |-> 2025, month |-> 8,  day |-> 1 ],
      [ year |-> 2025, month |-> 12, day |-> 7 ] }

\* "end_date < start_date"
date_before(a, b) ==
    \/ a.year < b.year
    \/ a.year = b.year /\ a.month < b.month
    \/ a.year = b.year /\ a.month = b.month /\ a.day < b.day

\* strftime('%b').lower()
month_abbr(month) ==
    << "jan", "feb", "mar", "apr", "may", "jun",
       "jul", "aug", "sep", "oct", "nov", "dec" >>[month]

\* the month abbreviations in the order of their letters
abbr_sorted ==
    << "apr", "aug", "dec", "feb", "jan", "jul",
       "jun", "mar", "may", "nov", "oct", "sep" >>

abbr_rank(abbr) == CHOOSE i \in 1..12 : abbr_sorted[i] = abbr

\* the part of the name "ast_satellite_data_{date_suffix}.json" that
\* changes from a run to another: '%b%d' of the start, '-', '%b%d' of the
\* end, in lower case
date_suffix(start_date, end_date) ==
    << month_abbr(start_date.month), start_date.day,
       month_abbr(end_date.month), end_date.day >>

\* the order of two file names as strings: the names have the same length
\* and differ in the suffix only, a fixed-width field at a time
name_before(f, g) ==
    \/ abbr_rank(f[1]) < abbr_rank(g[1])
    \/ f[1] = g[1] /\ f[2] < g[2]
    \/ f[1] = g[1] /\ f[2] = g[2] /\ abbr_rank(f[3]) < abbr_rank(g[3])
    \/ f[1] = g[1] /\ f[2] = g[2] /\ f[3] = g[3] /\ f[4] < g[4]

\* "sorted(data_files)[-1]"
sorted_last(data_files) ==
    CHOOSE f \in data_files :
        \A g \in data_files : g = f \/ name_before(g, f)

\* validate_dates
PipelineValidate ==
    /\ pc = "validate"
    /\ pc' = IF date_before(args.end, args.start) THEN "exit1" ELSE "step1"
    /\ UNCHANGED << caller_vars, request_vars, sampler_vars, segmenter_vars,
                    table, link_calls >>

\* Step 1: the trajectory command is run unless skipped; when it exits
\* with 0 it has written the data file of the date range
StepData ==
    /\ pc = "step1"
    /\ IF args.skip_data
       THEN pc' = "step2" /\ UNCHANGED << directory, log >>
       ELSE \E returncode \in { 0, 1 }, written \in BOOLEAN :
               /\ returncode = 0 => written
               /\ directory' =
                      IF written
                      THEN directory \cup { date_suffix(args.start, args.end) }
                      ELSE directory
               /\ log' = Append(log, [ step |-> "data",
                                       returncode |-> returncode ])
               /\ pc' = IF returncode # 0 THEN "exit1" ELSE "step2"
    /\ UNCHANGED << thresholds, details, segment_calls, fleet, sat_index, tle,
                    all_satellite_data, tasks, fetch_vars, gui_vars,
                    args, report_source,
                    request_vars, sampler_vars, segmenter_vars, table,
                    link_calls >>

\* StepPasses that goes on to step 3 whatever the exit code of the
\* pass-report command
StepPassesIgnoresFailure ==
    /\ pc = "step2"
    /\ IF args.skip_passes
       THEN pc' = "step3" /\ UNCHANGED << log, report_source >>
       ELSE IF directory = {}
       THEN pc' = "exit1" /\ UNCHANGED << log, report_source >>
       ELSE \E returncode \in { 0, 1 } :
               /\ report_source' = Some(sorted_last(directory))
               /\ log' = Append(log, [ step |-> "passes",
                                       returncode |-> returncode ])
               /\ pc' = "step3"
    /\ UNCHANGED << thresholds, details, segment_calls, fleet, sat_index, tle,
                    all_satellite_data, tasks, fetch_vars, gui_vars,
                    args, directory,
                    request_vars, sampler_vars, segmenter_vars, table,
                    link_calls >>

\* Step 2: unless skipped, the pass-report command is run if there is a
\* data file; it loads the last data file in the order of the names
StepPasses ==
    /\ pc = "step2"
    /\ IF args.skip_passes
       THEN pc' = "step3" /\ UNCHANGED << log, report_source >>
       ELSE IF directory = {}
       THEN pc' = "exit1" /\ UNCHANGED << log, report_source >>
       ELSE \E returncode \in { 0, 1 } :
               /\ report_source' = Some(sorted_last(directory))
               /\ log' = Append(log, [ step |-> "passes",
                                       returncode |-> returncode ])
               /\ pc' = IF returncode # 0 THEN "exit1" ELSE "step3"
    /\ UNCHANGED << thresholds, details, segment_calls, fleet, sat_index, tle,
                    all_satellite_data, tasks, fetch_vars, gui_vars,
                    args, directory,
                    request_vars, sampler_vars, segmenter_vars, table,
                    link_calls >>

\* Step 3: the PDF command is run unless skipped
StepPdf ==
    /\ pc = "step3"
    /\ IF args.skip_pdf
       THEN pc' = "summary" /\ log' = log
       ELSE \E returncode \in { 0, 1 } :
               /\ log' = Append(log, [ step |-> "pdf",
                                       returncode |-> returncode ])
               /\ pc' = IF returncode # 0 THEN "exit1" ELSE "summary"
    /\ UNCHANGED << thresholds, details, segment_calls, fleet, sat_index, tle,
                    all_satellite_data, tasks, fetch_vars, gui_vars,
                    args, directory,
                    report_source, request_vars, sampler_vars,
                    segmenter_vars, table, link_calls >>

\* print_success_summary, then main returns
PrintSummary ==
    /\ pc = "summary"
    /\ log' = Append(log, [ step |-> "summary", returncode |-> 0 ])
    /\ pc' = "exit0"
    /\ UNCHANGED << thresholds, details, segment_calls, fleet, sat_index, tle,
                    all_satellite_data, tasks, fetch_vars, gui_vars,
                    args, directory,
                    report_source, request_vars, sampler_vars,
                    segmenter_vars, table, link_calls >>

\* SpecPipeline: the pipeline is run once, with any flags and dates, in a
\* directory where earlier runs may have left data files.
InitPipeline ==
    /\ CoreIdle
    /\ args \in [ start : Dates, end : Dates,
                  skip_data : BOOLEAN, skip_passes : BOOLEAN,
                  skip_pdf : BOOLEAN ]
    /\ directory \in SUBSET { date_suffix(range[1], range[2]) :
                                range \in { r \in Dates \X Dates :
                                              ~ date_before(r[2], r[1]) } }
    /\ log = << >>
    /\ report_source = None
    /\ FetchIdle
    /\ GuiIdle
    /\ pc = "validate"

NextPipeline ==
    \/ PipelineValidate
    \/ StepData
    \/ StepPasses
    \/ StepPdf
    \/ PrintSummary

SpecPipeline == InitPipeline /\ [][NextPipeline]_vars

\* ------------------------------------------------------------------------
\* core/tle.py : fetch_tle_data
\* ------------------------------------------------------------------------
\* the state of the library, which a front end of its own leaves alone
library_vars == << thresholds, details, segment_calls, fleet, sat_index, tle,
                  all_satellite_data, tasks, request_vars, sampler_vars,
                  segmenter_vars, table, link_calls >>

\* the state of the pipeline command
pipeline_vars == << args, directory, log, report_source >>

\* A line of text: the blanks before its first non-blank character, the
\* pieces of text from its first to its last non-blank character, and the
\* blanks after it.
Line(lead, pieces, trail) ==
    [ lead |-> lead, pieces |-> pieces, trail |-> trail ]

\* str.strip of a line
strip(line) == Line("", line.pieces, "")

\* the lines of a text without the blank lines at its head
RECURSIVE lstrip_lines(_)
lstrip_lines(text) ==
    IF text # << >> /\ Head(text).pieces = << >>
    THEN lstrip_lines(Tail(text))
    ELSE text

Reverse(seq) == [ k \in 1..Len(seq) |-> seq[Len(seq) + 1 - k] ]

\* response.text.strip().split("\n"): the blanks and line ends at both
\* ends of the text are dropped and what is left is cut at the line ends;
\* a text with nothing left gives one empty line
strip_split(text) ==
    LET kept == Reverse(lstrip_lines(Reverse(lstrip_lines(text))))
    IN  IF kept = << >>
        THEN << Line("", << >>, "") >>
        ELSE [ k \in 1..Len(kept) |->
                 Line(IF k = 1 THEN "" ELSE kept[k].lead,
                      kept[k].pieces,
                      IF k = Len(kept) THEN "" ELSE kept[k].trail) ]

\* "str(norad_id) in line"
contains(line, id) ==
    \E k \in 1..Len(line.pieces) : line.pieces[k] = ToString(id)

\* the element set of a satellite as the provider sends it, each line
\* ended with a carriage return
tle_lines(name, id) ==
    << Line("", << name >>, "            \r"),
       Line("", << "1 ", ToString(id), "U 22059BF" >>, "\r"),
       Line("", << "2 ", ToString(id), "  53.2012" >>, "\r") >>

\* the texts a response can carry
Bodies(id) ==
    { << Line("", << >>, "") >>,
      << Line("", << "No GP data found" >>, "\r"), Line("", << >>, "") >>,
      tle_lines("SATELLITE", id) \o << Line("", << >>, "") >>,
      << Line("", << >>, "\r") >> \o tle_lines("SATELLITE", id),
      SubSeq(tle_lines("SATELLITE", id), 1, 2),
      tle_lines("ISS (ZARYA)", 25544) \o tle_lines("SATELLITE", id),
      tle_lines("ISS (ZARYA)", 25544)
          \o SubSeq(tle_lines("SATELLITE", id), 1, 2),
      << Line("", << "# active" >>, "\r") >> \o tle_lines("SATELLITE", id),
      << Line("", << "<html>" >>, ""),
         Line(" ", << "<h1>503 Service Unavailable</h1>" >>, ""),
         Line("", << "</html>" >>, "") >> }

\* what requests.get can give: an exception, or a response
Network(id) ==
    { [ exception |-> "ConnectionError" ], [ exception |-> "Timeout" ] }
    \cup { [ status_code |-> status, text |-> text ] :
             status \in { 200, 404, 500 }, text \in Bodies(id) }

not_found == [ name |-> None, line1 |-> None, line2 |-> None ]

\* the three lines from line k on, each stripped
elements(lines, k) ==
    [ name  |-> Some(strip(lines[k])),
      line1 |-> Some(strip(lines[k + 1])),
      line2 |-> Some(strip(lines[k + 2])) ]

\* the call returns a value
returned(value) == [ raised |-> None, value |-> value ]

\* an except clause that catches connection errors only
except_ConnectionError(e) ==
    IF e = "ConnectionError"
    THEN returned(not_found)
    ELSE [ raised |-> Some(e), value |-> not_found ]

\* "except Exception as e": the error is printed and the call returns
except_Exception(e) == returned(not_found)

\* the scan of the general catalog: the first group of three lines whose
\* second line contains the number
catalog_entry(lines, id) ==
    LET starts == { i \in 0..(Len(lines) - 1) :
                      /\ i % 3 = 0
                      /\ i + 2 < Len(lines)
                      /\ contains(lines[i + 2], id) }
    IN  IF starts = { }
        THEN not_found
        ELSE elements(lines,
                      1 + CHOOSE i \in starts : \A j \in starts : i <= j)

\* the request with the catalog number
FetchRequest ==
    /\ pc = "request"
    /\ \E response \in Network(catalog_number) :
          /\ responses' = Append(responses, response)
          /\ IF "exception" \in DOMAIN response
             THEN /\ fetch_result' = Some(except_Exception(response.exception))
                  /\ pc' = "returned"
             ELSE LET lines == strip_split(response.text)
                  IN  IF response.status_code = 200 /\ Len(lines) >= 3
                      THEN /\ fetch_result' =
                                 Some(returned(elements(lines, 1)))
                           /\ pc' = "returned"
                      ELSE /\ fetch_result' = None
                           /\ pc' = "fallback"
    /\ UNCHANGED << library_vars, pipeline_vars, gui_vars, catalog_number >>

\* the fallback: the request of the general catalog
FetchFallback ==
    /\ pc = "fallback"
    /\ \E response \in Network(catalog_number) :
          /\ responses' = Append(responses, response)
          /\ fetch_result' =
                 IF "exception" \in DOMAIN response
                 THEN Some(except_Exception(response.exception))
                 ELSE IF response.status_code = 200
                 THEN Some(returned(catalog_entry(strip_split(response.text),
                                                  catalog_number)))
                 ELSE Some(returned(not_found))
    /\ pc' = "returned"
    /\ UNCHANGED << library_vars, pipeline_vars, gui_vars, catalog_number >>

\* SpecFetch: fetch_tle_data is called once for a satellite of the catalog,
\* and the network answers each request in any way.
InitFetch ==
    /\ CoreIdle
    /\ PipelineIdle
    /\ GuiIdle
    /\ catalog_number \in { AST_SATELLITES[k].norad_id :
                              k \in 1..Len(AST_SATELLITES) }
    /\ responses = << >>
    /\ fetch_result = None
    /\ pc = "request"

NextFetch ==
    \/ FetchRequest
    \/ FetchFallback

SpecFetch == InitFetch /\ [][NextFetch]_vars

\* ------------------------------------------------------------------------
\* ast_spacemobile_gui.py : SatelliteAnalysisApp
\* ------------------------------------------------------------------------
\* the most callbacks the idle queue is followed to
MaxPending == 3

\* the texts an entry can hold, and the satellites of the combo box
Entries ==
    [ lat_entry        : { "31.9973", "north" },
      start_date_entry : { "2025-12-07", "2025-13-07" },
      satellite_combo  : { AST_SATELLITES[k].name :
                             k \in 1..Len(AST_SATELLITES) } ]

\* float(text) and datetime.strptime(text, ...) raise ValueError for a text
\* that is not a number, not a date
parses(text) == text \in { "31.9973", "2025-12-07" }

\* the status messages that generate_analysis pushes after it has read the
\* entries, in order; the statement that follows each of them can raise
progress(satellite_name) ==
    { "Fetching TLE data for " \o satellite_name \o "...",
      "Could not fetch TLE, using simulated data...",
      "Calculating satellite positions...",
      "Found passes. Updating display..." }

\* on_generate_clicked that leaves the button sensitive
on_generate_clicked_stays_sensitive ==
    /\ pc = "main"
    /\ generate_button
    /\ IsNone(dialog)
    /\ Len(idle_sources) < MaxPending
    /\ \E raises \in { "nothing", "update_status", "set_sensitive", "idle_add" } :
          /\ statusbar' = IF raises = "update_status"
                          THEN statusbar
                          ELSE "Generating analysis..."
          /\ generate_button' = generate_button
          /\ idle_sources' = IF raises = "nothing"
                             THEN Append(idle_sources, "generate_analysis")
                             ELSE idle_sources
          /\ dialog' = IF raises = "nothing" THEN None ELSE Some("Error")
          /\ running' = IF raises = "nothing"
                        THEN None
                        ELSE Some("on_generate_clicked")
    /\ UNCHANGED << library_vars, pipeline_vars, fetch_vars, entries,
                    current_passes, pc >>

\* The Generate button is clicked: the status is updated, the button is
\* made insensitive and generate_analysis is queued; when one of the three
\* calls raises, an error dialog is shown instead of what follows it.
on_generate_clicked ==
    /\ pc = "main"
    /\ generate_button
    /\ IsNone(dialog)
    /\ Len(idle_sources) < MaxPending
    /\ \E raises \in { "nothing", "update_status", "set_sensitive", "idle_add" } :
          /\ statusbar' = IF raises = "update_status"
                          THEN statusbar
                          ELSE "Generating analysis..."
          /\ generate_button' =
                 IF raises \in { "update_status", "set_sensitive" }
                 THEN generate_button
                 ELSE FALSE
          /\ idle_sources' = IF raises = "nothing"
                             THEN Append(idle_sources, "generate_analysis")
                             ELSE idle_sources
          /\ dialog' = IF raises = "nothing" THEN None ELSE Some("Error")
          /\ running' = IF raises = "nothing"
                        THEN None
                        ELSE Some("on_generate_clicked")
    /\ UNCHANGED << library_vars, pipeline_vars, fetch_vars, entries,
                    current_passes, pc >>

\* The main loop runs the queued callback. It reads the entries, which
\* raises ValueError for a text that does not parse; then it fetches the
\* elements, samples, segments and updates the display, and any of these
\* can raise. With no exception the results are stored, the finally clause
\* makes the button sensitive and the callback returns False, which
\* removes it from the queue; with an exception the error dialog is shown
\* and the callback waits for the answer.
generate_analysis ==
    /\ pc = "main"
    /\ idle_sources # << >>
    /\ IsNone(dialog)
    /\ IF ~ parses(entries.lat_entry) \/ ~ parses(entries.start_date_entry)
       THEN /\ dialog' = Some("Invalid input")
            /\ running' = Some("generate_analysis")
            /\ UNCHANGED << generate_button, idle_sources, statusbar,
                            current_passes >>
       ELSE \/ \E found \in 0..1 :
                  /\ current_passes' = Some(found)
                  /\ statusbar' = "Analysis complete. Found "
                                  \o ToString(found) \o " passes over "
                                  \o entries.satellite_combo \o "."
                  /\ generate_button' = TRUE
                  /\ idle_sources' = Tail(idle_sources)
                  /\ UNCHANGED << dialog, running >>
            \/ \E message \in progress(entries.satellite_combo),
                  error \in { "Invalid input", "Error during analysis" } :
                  /\ statusbar' = message
                  /\ dialog' = Some(error)
                  /\ running' = Some("generate_analysis")
                  /\ UNCHANGED << generate_button, idle_sources,
                                  current_passes >>
    /\ UNCHANGED << library_vars, pipeline_vars, fetch_vars, entries, pc >>

\* The error dialog is answered: show_error_dialog returns to the handler
\* that called it. on_generate_clicked makes the button sensitive;
\* generate_analysis runs its finally clause, which makes the button
\* sensitive, and returns False.
show_error_dialog_returns ==
    /\ pc = "main"
    /\ ~ IsNone(dialog)
    /\ dialog' = None
    /\ running' = None
    /\ generate_button' = TRUE
    /\ idle_sources' = IF running = Some("generate_analysis")
                       THEN Tail(idle_sources)
                       ELSE idle_sources
    /\ UNCHANGED << library_vars, pipeline_vars, fetch_vars, statusbar,
                    entries, current_passes, pc >>

\* the Clear button is clicked
on_clear_clicked ==
    /\ pc = "main"
    /\ IsNone(dialog)
    /\ current_passes' = None
    /\ statusbar' = "Results cleared"
    /\ UNCHANGED << library_vars, pipeline_vars, fetch_vars, generate_button,
                    idle_sources, dialog, running, entries, pc >>

\* the user changes the text of an entry or the satellite selected
EntryChanged ==
    /\ pc = "main"
    /\ IsNone(dialog)
    /\ \E edited \in Entries :
          /\ edited # entries
          /\ entries' = edited
    /\ UNCHANGED << library_vars, pipeline_vars, fetch_vars, generate_button,
                    idle_sources, dialog, running, statusbar,
                    current_passes, pc >>

\* SpecGui: the window as Gtk.main finds it, with the default entries.
InitGui ==
    /\ CoreIdle
    /\ PipelineIdle
    /\ FetchIdle
    /\ generate_button = TRUE
    /\ idle_sources = << >>
    /\ dialog = None
    /\ running = None
    /\ statusbar = "Ready"
    /\ entries = [ lat_entry        |-> "31.9973",
                   start_date_entry |-> "2025-12-07",
                   satellite_combo  |-> AST_SATELLITES[1].name ]
    /\ current_passes = None
    /\ pc = "main"

NextGui ==
    \/ on_generate_clicked
    \/ generate_analysis
    \/ show_error_dialog_returns
    \/ on_clear_clicked
    \/ EntryChanged

SpecGui == InitGui /\ [][NextGui]_vars

\* SpecGuiLive: the main loop runs a queued idle callback when it has
\* nothing else to do, and the user answers an error dialog.
SpecGuiLive ==
    /\ SpecGui
    /\ WF_vars(generate_analysis)
    /\ WF_vars(show_error_dialog_returns)

\* ------------------------------------------------------------------------
\* Properties
\* ------------------------------------------------------------------------
\* identify_passes has returned
Segmented ==
    pc \in { "segmented", "done", "detailed", "TypeError", "IndexError" }

\* the samples of the input that are visible, in input order
VisibleOnly(samples) ==
    LET Shown(sample) == sample.visible IN SelectSeq(samples, Shown)

RECURSIVE Concat(_)
Concat(lists) ==
    IF lists = << >> THEN << >> ELSE Head(lists) \o Concat(Tail(lists))

\* run is the non-empty run of input samples that starts at index first,
\* all of them visible, with no visible input sample next to it
IsMaximalRun(run, first) ==
    LET n == Len(run)
    IN  /\ n >= 1
        /\ first + n - 1 <= Len(positions)
        /\ \A j \in 1..n :
              run[j] = positions[first + j - 1] /\ run[j].visible
        /\ first > 1 => ~ positions[first - 1].visible
        /\ first + n <= Len(positions) => ~ positions[first + n].visible

\* C1: every pass returned by identify_passes is a non-empty run of
\* consecutive input samples, all visible, and maximal (the input sample
\* before it and the one after it, if any, are not visible); two consecutive
\* passes have at least one non-visible input sample between them.
C1_PassesAreMaximalRuns ==
    Segmented =>
        \E first \in [1..Len(passes) -> 1..Len(positions)] :
            /\ \A k \in 1..Len(passes) : IsMaximalRun(passes[k], first[k])
            /\ \A k \in 1..(Len(passes) - 1) :
                  /\ first[k] + Len(passes[k]) < first[k + 1]
                  /\ \E gap \in (first[k] + Len(passes[k]))..(first[k + 1] - 1) :
                        ~ positions[gap].visible

\* identify_passes returned two passes, with a visible sample at both ends
\* of the input
C1_Witness ==
    /\ Segmented
    /\ Len(passes) >= 2
    /\ positions[1].visible
    /\ positions[Len(positions)].visible

\* C2: the scan keeps, after each sample it has read, the passes emitted so
\* far followed by the pass under way equal to the visible samples read so
\* far, and it is in a pass exactly when the last sample read is visible;
\* so the passes returned, concatenated in order, are exactly the visible
\* samples of the input in input order.
C2_PassesPartitionVisible ==
    /\ pc = "segmenting" =>
          LET scanned == SubSeq(positions, 1, next_pos - 1)
          IN  /\ Concat(passes) \o current_pass = VisibleOnly(scanned)
              /\ in_pass <=> (scanned # << >> /\ scanned[Len(scanned)].visible)
              /\ ~ in_pass => current_pass = << >>
    /\ Segmented => Concat(passes) = VisibleOnly(positions)

\* identify_passes returned from an input that mixes visible and non-visible
\* samples and holds at least three visible ones
C2_Witness ==
    /\ Segmented
    /\ Len(VisibleOnly(positions)) >= 3
    /\ Len(VisibleOnly(positions)) < Len(positions)
    /\ Len(passes) >= 2

\* C7: when the last input sample is visible, the pass accumulated when the
\* input ends is the last pass returned, it ends with the last input sample,
\* and no other returned pass holds that sample.
C7_TrailingPassEmittedOnce ==
    (Segmented /\ positions # << >> /\ positions[Len(positions)].visible) =>
        /\ passes # << >>
        /\ passes[Len(passes)] = current_pass
        /\ current_pass[Len(current_pass)] = positions[Len(positions)]
        /\ \A k \in 1..(Len(passes) - 1) :
              \A j \in 1..Len(passes[k]) :
                  passes[k][j] # positions[Len(positions)]

\* identify_passes returned from an input whose last sample is visible and
\* whose trailing pass is not the only pass
C7_Witness ==
    /\ Segmented
    /\ positions # << >>
    /\ positions[Len(positions)].visible
    /\ Len(passes) >= 2
    /\ in_pass

\* the four numeric fields of a link-metrics dict
Absent(m) ==
    /\ IsNone(m.received_power_dbm)
    /\ IsNone(m.snr_db)
    /\ IsNone(m.path_loss_db)
    /\ IsNone(m.atmospheric_loss_db)

Populated(m) ==
    /\ ~ IsNone(m.received_power_dbm)
    /\ ~ IsNone(m.snr_db)
    /\ ~ IsNone(m.path_loss_db)
    /\ ~ IsNone(m.atmospheric_loss_db)

\* the calls of calculate_signal_strength in the log
Calls == { link_calls[i] : i \in 1..Len(link_calls) }

\* C3: calculate_signal_strength returns, for an elevation < 0, the result
\* with received power, SNR, path loss and atmospheric loss all absent and
\* link_quality "No Signal", and for an elevation >= 0 all four populated;
\* no result has some of the four absent and others populated.
C3_AllAbsentOrAllPopulated ==
    \A c \in Calls :
        /\ c.elevation_deg < 0 =>
              Absent(c.signal) /\ c.signal.link_quality = "No Signal"
        /\ c.elevation_deg >= 0 =>
              Populated(c.signal) /\ c.signal.link_quality # "No Signal"
        /\ Absent(c.signal) \/ Populated(c.signal)

\* a call exactly on the horizon and a call just below it are in the log
C3_Witness ==
    \E c, d \in Calls :
        /\ c.elevation_deg = 0 /\ Populated(c.signal)
        /\ d.elevation_deg = -4 /\ Absent(d.signal)

\* the order of the link qualities, worst first
QualityRank(quality) ==
    CASE quality = "No Signal" -> 0
      [] quality = "Very Poor" -> 1
      [] quality = "Poor"      -> 2
      [] quality = "Fair"      -> 3
      [] quality = "Good"      -> 4
      [] quality = "Excellent" -> 5

\* C9: the link quality of a call with elevation >= 0 is decided from its
\* (unrounded) SNR: >= 20 Excellent, else >= 15 Good, else >= 10 Fair, else
\* >= 5 Poor, else Very Poor; a higher SNR never gives a worse quality; and
\* the SNR values 25, 20, 17, 12, 7, 2 give Excellent, Excellent, Good,
\* Fair, Poor, Very Poor.
C9_QualityFromSnr ==
    LET Lit == { c \in Calls : c.elevation_deg >= 0 }
        Snr(c) == snr_db(c.elevation_deg, c.range_km)
        Quality(c) == c.signal.link_quality
    IN  /\ \A c \in Lit :
              /\ Snr(c) >= 20000 <=> Quality(c) = "Excellent"
              /\ (Snr(c) >= 15000 /\ Snr(c) < 20000) <=> Quality(c) = "Good"
              /\ (Snr(c) >= 10000 /\ Snr(c) < 15000) <=> Quality(c) = "Fair"
              /\ (Snr(c) >= 5000 /\ Snr(c) < 10000) <=> Quality(c) = "Poor"
              /\ Snr(c) < 5000 <=> Quality(c) = "Very Poor"
              /\ Snr(c) = 25000 => Quality(c) = "Excellent"
              /\ Snr(c) = 20000 => Quality(c) = "Excellent"
              /\ Snr(c) = 17000 => Quality(c) = "Good"
              /\ Snr(c) = 12000 => Quality(c) = "Fair"
              /\ Snr(c) = 7000 => Quality(c) = "Poor"
              /\ Snr(c) = 2000 => Quality(c) = "Very Poor"
        /\ \A c, d \in Lit :
              Snr(c) <= Snr(d) =>
                  QualityRank(Quality(c)) <= QualityRank(Quality(d))

\* a call with an SNR of exactly 20 dB and a call with an SNR just below
\* 20 dB are in the log
C9_Witness ==
    \E c, d \in Calls :
        /\ c.elevation_deg >= 0 /\ d.elevation_deg >= 0
        /\ snr_db(c.elevation_deg, c.range_km) = 20000
        /\ c.signal.link_quality = "Excellent"
        /\ snr_db(d.elevation_deg, d.range_km) = 19998
        /\ d.signal.link_quality = "Good"

\* C10: for a call with elevation >= 0 the atmospheric loss is 2.0 dB when
\* the elevation is >= 10 degrees and 2.0 + (10 - elevation) * 0.5 dB when
\* it is below; it lies between 2.0 and 7.0 dB, is 7.0 dB at 0 degrees,
\* never increases as the elevation rises, and at 10 degrees both formulas
\* give 2.0 dB.  The dict reports it rounded to 2 decimals.
C10_AtmosphericLoss ==
    LET Lit == { c \in Calls : c.elevation_deg >= 0 }
        Loss(c) == atm_loss_db(c.elevation_deg)
    IN  /\ \A c \in Lit :
              /\ c.elevation_deg >= 10000 => Loss(c) = 2000
              /\ c.elevation_deg < 10000 =>
                    2 * (Loss(c) - 2000) = 10000 - c.elevation_deg
              /\ Loss(c) >= 2000 /\ Loss(c) <= 7000
              /\ c.elevation_deg = 0 => Loss(c) = 7000
              /\ c.elevation_deg = 10000 =>
                    /\ Loss(c) = 2000
                    /\ 2 * (Loss(c) - 2000) = 10000 - c.elevation_deg
              /\ c.signal.atmospheric_loss_db = Some(Round2(Loss(c)))
        /\ \A c, d \in Lit :
              c.elevation_deg <= d.elevation_deg => Loss(c) >= Loss(d)

\* a call on the horizon (7.0 dB) and a call just below the 10 degree
\* breakpoint (2.002 dB, reported as 2.0) are in the log
C10_Witness ==
    \E c, d \in Calls :
        /\ c.elevation_deg = 0
        /\ c.signal.atmospheric_loss_db = Some(7000)
        /\ d.elevation_deg = 9996
        /\ atm_loss_db(d.elevation_deg) = 2002
        /\ d.signal.atmospheric_loss_db = Some(2000)

\* generate_satellite_passes has returned
Sampled == pc # "sampling" /\ pc # "link"

\* C4: for end >= start and interval > 0 the sampler returns one sample for
\* each tick start + k*interval (k = 0, 1, ...) that is <= end and none
\* beyond end, in increasing time order, interval apart: their number is
\* floor((end - start) / interval) + 1, the last one is at end only if end is
\* on a tick, start = end gives one sample, and a window of 59 s sampled
\* every 5 s gives 12 samples.
C4_OneSamplePerTick ==
    /\ \A i \in 1..Len(positions) :
          /\ positions[i].timestamp = start_time + (i - 1) * interval_seconds
          /\ positions[i].timestamp <= end_time
    /\ \A i \in 1..(Len(positions) - 1) :
          positions[i + 1].timestamp - positions[i].timestamp
              = interval_seconds
    /\ Sampled =>
          /\ Len(positions)
                = ((end_time - start_time) \div interval_seconds) + 1
          /\ start_time + Len(positions) * interval_seconds > end_time
          /\ positions[Len(positions)].timestamp = end_time
                <=> (end_time - start_time) % interval_seconds = 0
          /\ start_time = end_time => Len(positions) = 1
          /\ (end_time - start_time = 59 /\ interval_seconds = 5)
                => Len(positions) = 12

\* the sampler returned 12 samples, the last one at 55 s, for a window of
\* 59 s sampled every 5 s
C4_Witness ==
    /\ Sampled
    /\ end_time - start_time = 59
    /\ interval_seconds = 5
    /\ Len(positions) = 12
    /\ positions[12].timestamp = start_time + 55

\* the sampler returned a sample at end_time itself
C4_WitnessOnTick ==
    /\ Sampled
    /\ end_time - start_time = 60
    /\ interval_seconds = 5
    /\ Len(positions) = 13
    /\ positions[13].timestamp = end_time

\* C5 as claimed: in every sample, visible is true exactly when the
\* elevation_deg recorded in the same sample is > 0.
C5_VisibleIffRecordedElevationPositive ==
    \A i \in 1..Len(positions) :
        positions[i].visible <=> positions[i].elevation_deg > 0

\* C5, amended: in every sample, visible is true exactly when the unrounded
\* elevation of its tick is > 0; the recorded elevation_deg is that
\* elevation rounded to 2 decimals, so it is >= 0 in a visible sample and
\* <= 0 in a sample that is not visible, and a recorded elevation_deg > 0
\* implies visible.
C5_VisibleIffUnroundedElevationPositive ==
    \A i \in 1..Len(positions) :
        /\ positions[i].visible <=> altaz[i].alt > 0
        /\ positions[i].elevation_deg = Round2(altaz[i].alt)
        /\ positions[i].visible => positions[i].elevation_deg >= 0
        /\ ~ positions[i].visible => positions[i].elevation_deg <= 0
        /\ positions[i].elevation_deg > 0 => positions[i].visible

\* a visible sample whose recorded elevation_deg is 0.0
C5_Witness ==
    \E i \in 1..Len(positions) :
        /\ positions[i].visible
        /\ altaz[i].alt > 0
        /\ positions[i].elevation_deg = 0

\* C6: a tick whose elevation is exactly 0 gives a sample that is not
\* visible and whose link metrics are all populated, and 0 is the only
\* elevation at which a sample is not visible and has populated metrics.
C6_HorizonSample ==
    \A i \in 1..Len(positions) :
        /\ altaz[i].alt = 0 =>
              ~ positions[i].visible /\ Populated(positions[i])
        /\ (~ positions[i].visible /\ ~ Absent(positions[i])) =>
              altaz[i].alt = 0

\* a sample taken exactly on the horizon, next to a sample taken just
\* below it
C6_Witness ==
    \E i, j \in 1..Len(positions) :
        /\ altaz[i].alt = 0
        /\ ~ positions[i].visible
        /\ Populated(positions[i])
        /\ positions[i].link_quality # "No Signal"
        /\ altaz[j].alt = -4
        /\ Absent(positions[j])

\* C8: every sample of every pass found by identify_passes in the output of
\* the sampler has its received power and its SNR populated, so the table
\* of passes is computed, pass by pass, from non-empty lists of numbers and
\* raises no error.
C8_PassSamplesPopulated ==
    /\ \A k \in 1..Len(passes) :
          /\ passes[k] # << >>
          /\ \A j \in 1..Len(passes[k]) :
                /\ ~ IsNone(passes[k][j].received_power_dbm)
                /\ ~ IsNone(passes[k][j].snr_db)
    /\ \A j \in 1..Len(current_pass) :
          /\ ~ IsNone(current_pass[j].received_power_dbm)
          /\ ~ IsNone(current_pass[j].snr_db)
    /\ pc \notin { "TypeError", "IndexError" }
    /\ pc = "done" => Len(table) = Len(passes)

\* the table is computed for a pass that holds the sample just above the
\* horizon
C8_Witness ==
    /\ pc = "done"
    /\ \E k \in 1..Len(passes) :
          /\ \E j \in 1..Len(passes[k]) : passes[k][j].elevation_deg = 0
          /\ table[k].max_signal >= table[k].avg_signal

\* C11 as claimed: for a call with elevation >= 0, the reported
\* path_loss_db equals the free-space path loss of the range plus the
\* reported atmospheric_loss_db plus the system losses, exactly.
C11_PathLossIsExactSum ==
    \A c \in Calls :
        c.elevation_deg >= 0 =>
            c.signal.path_loss_db[1]
                = fspl_db(c.range_km) + c.signal.atmospheric_loss_db[1]
                      + system_losses_db

\* C11, amended: for a call with elevation >= 0, the reported path_loss_db
\* is the sum of the free-space path loss, the unrounded atmospheric loss
\* and the system losses, rounded to 2 decimals; it is within 0.01 dB of
\* the free-space path loss plus the reported atmospheric_loss_db plus the
\* system losses.
C11_PathLossIsRoundedSum ==
    \A c \in Calls :
        c.elevation_deg >= 0 =>
            LET exact == fspl_db(c.range_km) + atm_loss_db(c.elevation_deg)
                             + system_losses_db
                reported == fspl_db(c.range_km)
                                + c.signal.atmospheric_loss_db[1]
                                + system_losses_db
            IN  /\ c.signal.path_loss_db = Some(Round2(exact))
                /\ c.signal.path_loss_db[1] - reported <= 10
                /\ reported - c.signal.path_loss_db[1] <= 10

\* a call at 600 km and 45 degrees: the sum is 159.034 dB and the reported
\* path loss is 159.03 dB
C11_Witness ==
    \E c \in Calls :
        /\ c.elevation_deg = 45000
        /\ c.range_km = 600000
        /\ c.signal.atmospheric_loss_db = Some(2000)
        /\ c.signal.path_loss_db = Some(159030)

\* C12 as claimed: the duration reported for a pass is the number of its
\* samples times the interval the samples were generated with, whatever
\* that interval is.
C12_DurationIsCountTimesInterval ==
    /\ \A k \in 1..Len(table) :
          table[k].duration_secs = Len(passes[k]) * interval_seconds
    /\ \A k \in 1..Len(details) :
          details[k].duration_secs = Len(passes[k]) * interval_seconds

\* C13 as claimed: the "link quality at peak" reported for a pass is the
\* classification the link budget gives to the peak snr_db of the pass,
\* whatever the four thresholds are configured to.
C13_PeakQualityFromLinkBudget ==
    \A k \in 1..Len(details) :
        details[k].quality = link_quality(details[k].peak_snr)

\* C14 as claimed: the sampler terminates. A request whose interval is not
\* positive is rejected before any sample is produced, and a request whose
\* interval is positive takes no more ticks than the window holds.
C14_SamplerTerminates ==
    /\ interval_seconds <= 0 => positions = << >> /\ pc # "sampled"
    /\ interval_seconds > 0 /\ end_time >= start_time =>
          Len(positions) <= (end_time - start_time) \div interval_seconds + 1
    /\ interval_seconds > 0 /\ end_time < start_time => positions = << >>

\* C15 as claimed: a request whose end precedes its start is rejected with
\* an error before any sampling; the sampler never returns a sequence,
\* empty or not, as the successful result of such a request.
C15_ReversedWindowRejected ==
    end_time < start_time => pc # "sampled" /\ positions = << >>

\* C16 as claimed: when the propagator cannot evaluate the position at a
\* tick, the run ends in an error: no sample is emitted for the failed
\* tick, and the sampler does not return a sequence, partial or complete.
C16_FailureEndsRun ==
    \A i \in 1..Len(altaz) :
        Failed(altaz[i]) => Len(positions) < i /\ pc # "sampled"

\* the run of the trajectory report is over
FleetEnded == pc \in { "written", "TypeError" }

\* what the run gives back: the data written after the loop
run_result == IF pc = "written" THEN all_satellite_data ELSE << >>

\* C17 as claimed: when the sampling of one satellite of the fleet fails,
\* every other satellite of the run still has its complete sample sequence
\* in the result of the run.
C17_FailureLeavesOthersSampled ==
    FleetEnded /\ (\E i \in 1..Len(altaz) : Failed(altaz[i])) =>
        \A k \in 1..Len(fleet) :
            k # sat_index =>
                /\ k <= Len(run_result)
                /\ Len(run_result[k].positions) =
                       (end_time - start_time) \div interval_seconds + 1

\* C18: the sampler is entered only with both element lines present; when
\* the provider's answer lacks a line the elements are the simulated ones
\* of that satellite, otherwise they are the provider's, and the sampler
\* then runs over the same window in both cases.
C18_SamplerHasElements ==
    sat_index >= 1 =>
        LET sat == fleet[sat_index]
        IN  /\ ~ falsy(tle.line1)
            /\ ~ falsy(tle.line2)
            /\ missing_elements(sat.provider) =>
                   tle = create_simulated_tle(sat.norad_id, sat.name)
            /\ ~ missing_elements(sat.provider) => tle = sat.provider
            /\ pc = "sampled" =>
                   Len(positions) =
                       (end_time - start_time) \div interval_seconds + 1

\* the provider answered with a blank second line for the second satellite,
\* and that satellite has been sampled with simulated elements
C18_Witness ==
    /\ sat_index = 2
    /\ pc = "sampled"
    /\ fleet[2].provider.line1 # None
    /\ fleet[2].provider.line2 = Some("")
    /\ tle = create_simulated_tle(61045, "BLUEBIRD-A")
    /\ Len(positions) = 2
    /\ positions[2].visible

\* the calls of identify_passes made so far that have returned, the one
\* that has just returned included
returned_calls ==
    { segment_calls[i] : i \in 1..Len(segment_calls) }
    \cup (IF pc = "segmented"
          THEN { [ input |-> positions, output |-> passes ] }
          ELSE {})

\* C19: identify_passes called again on an input it was called on before,
\* with calls on other inputs in between or not, returns the same passes;
\* the input list and its samples are the same after the call as before.
C19_SameInputSamePasses ==
    /\ \A c, d \in returned_calls : c.input = d.input => c.output = d.output
    /\ positions = samples_of(altaz)
    /\ \A c \in returned_calls : VisibleOnly(c.input) = Concat(c.output)

\* identify_passes has returned three times: twice on the same list that
\* holds a pass, and in between on another list with another result
C19_Witness ==
    /\ pc = "segmented"
    /\ Len(segment_calls) = 2
    /\ segment_calls[1].input = positions
    /\ segment_calls[2].input # positions
    /\ segment_calls[2].output # passes
    /\ passes # << >>
    /\ segment_calls[1].output = passes

\* C20: identify_passes returns no pass for the empty list and for a list
\* without a visible sample, and returns one pass holding the whole list,
\* in order, for a non-empty list whose samples are all visible.
C20_EmptyInvisibleAllVisible ==
    Segmented =>
        /\ positions = << >> => passes = << >>
        /\ (\A i \in 1..Len(positions) : ~ positions[i].visible) =>
               passes = << >>
        /\ (positions # << >>
            /\ \A i \in 1..Len(positions) : positions[i].visible) =>
               passes = << positions >>

\* identify_passes returned from a list of three or more samples, all of
\* them visible
C20_Witness ==
    /\ Segmented
    /\ Len(positions) >= 3
    /\ \A i \in 1..Len(positions) : positions[i].visible
    /\ passes = << positions >>

C22_PowerRisesWithElevation ==
    /\ \A i, j \in 1..Len(positions) :
          (altaz[i].alt >= 0 /\ altaz[i].alt <= altaz[j].alt) =>
              positions[i].received_power_dbm[1]
                  <= positions[j].received_power_dbm[1]
    /\ \A k \in 1..Len(passes) :
          LET pass_data == passes[k]
              n == Len(pass_data)
          IN  \A j \in 1..n :
                  (\A m \in 1..n :
                       pass_data[m].elevation_deg
                           <= pass_data[j].elevation_deg) =>
                      \A m \in 1..n :
                          pass_data[m].received_power_dbm[1]
                              <= pass_data[j].received_power_dbm[1]
    /\ pc = "done" =>
          \A k \in 1..Len(table) :
              /\ table[k].max_signal
                     >= passes[k][1].received_power_dbm[1]
              /\ table[k].max_signal
                     >= passes[k][Len(passes[k])].received_power_dbm[1]

\* the pass at 600 km is tabulated: its sample at 45 degrees has the
\* maximum power of the pass, which is above the power at both edges
C22_Witness ==
    /\ pc = "done"
    /\ Len(passes) = 1
    /\ passes[1][1].range_km = 600000
    /\ \E j \in 1..Len(passes[1]) :
          /\ passes[1][j].elevation_deg = 45000
          /\ passes[1][j].received_power_dbm[1] = table[1].max_signal
    /\ table[1].max_signal > passes[1][1].received_power_dbm[1]
    /\ table[1].max_signal > passes[1][Len(passes[1])].received_power_dbm[1]

\* C23 as claimed: every sample produced by the sampler carries an azimuth
\* of at least 0 and below 360 degrees; the value 360 is never recorded.
C23_AzimuthBelow360 ==
    \A i \in 1..Len(positions) :
        /\ positions[i].azimuth_deg >= 0
        /\ positions[i].azimuth_deg < 360000

\* the samples of a satellite sampled alone from "now" to "last"
RECURSIVE sampled_alone(_, _, _, _)
sampled_alone(sat, now, last, step) ==
    IF more_ticks(now, last)
    THEN << position_data(now, CHOOSE obs \in Observable(sat, now) : TRUE) >>
         \o sampled_alone(sat, now + step, last, step)
    ELSE << >>

\* C24: under every interleaving of the parallel tasks, the samples of each
\* task are, at every moment, the first samples of the sequence obtained by
\* sampling its satellite alone, and the whole of it once the task has
\* returned; the configuration constants keep their values and no task
\* changes the arguments of another.
C24_TasksShareNoState ==
    /\ thresholds = LINK_QUALITY_THRESHOLDS
    /\ \A k \in 1..Len(tasks) :
          LET alone == sampled_alone(tasks[k].satellite, start_time,
                                     end_time, interval_seconds)
              mine == tasks[k].positions
          IN  /\ Len(mine) <= Len(alone)
              /\ mine = SubSeq(alone, 1, Len(mine))
              /\ tasks[k].current_time =
                     start_time + Len(mine) * interval_seconds
              /\ tasks[k].pc = "sampled" => mine = alone

\* two tasks sample different satellites; the first has returned its seven
\* samples while the second, three samples in, is still running
C24_Witness ==
    /\ pc = "tasks"
    /\ tasks[1].satellite # tasks[2].satellite
    /\ tasks[1].pc = "sampled"
    /\ Len(tasks[1].positions) = 7
    /\ tasks[1].positions[7].visible
    /\ tasks[2].pc = "sampling"
    /\ Len(tasks[2].positions) = 3

\* the steps of the pipeline in their order
StepOrder == << "data", "passes", "pdf", "summary" >>

StepRank(step) == CHOOSE i \in 1..4 : StepOrder[i] = step

\* the step is not skipped on the command line
Wanted(step) ==
    \/ step = "data" /\ ~ args.skip_data
    \/ step = "passes" /\ ~ args.skip_passes
    \/ step = "pdf" /\ ~ args.skip_pdf

\* C25: the pipeline starts its non-skipped steps in the order data, pass
\* report, PDF, each one only after the non-skipped steps before it have
\* exited with 0; a step that exits non-zero, or a pass-report step that
\* finds no data file, is followed by no other step and by exit status 1;
\* the summary is printed only when every non-skipped step succeeded.
C25_StepsInOrderUntilFailure ==
    /\ \A i \in 1..Len(log) :
          /\ log[i].step = "summary" \/ Wanted(log[i].step)
          /\ \A j \in 1..(i - 1) :
                /\ StepRank(log[j].step) < StepRank(log[i].step)
                /\ log[j].returncode = 0
          /\ \A step \in { "data", "passes", "pdf" } :
                (Wanted(step) /\ StepRank(step) < StepRank(log[i].step)) =>
                    \E j \in 1..(i - 1) : log[j].step = step
          /\ log[i].returncode # 0 => i = Len(log) /\ pc = "exit1"
          /\ log[i].step = "passes" => directory # {}
    /\ (pc \in { "step3", "summary", "exit0" }
        /\ ~ args.skip_passes) => directory # {}
    /\ pc = "exit0" => log # << >> /\ log[Len(log)].step = "summary"

\* the three steps have run one after the other and the summary is printed
C25_Witness ==
    /\ pc = "exit0"
    /\ Len(log) = 4
    /\ log[1].step = "data"
    /\ log[2].step = "passes"
    /\ log[3].step = "pdf"
    /\ log[4].step = "summary"

\* C26 as claimed: in a pipeline run that does not skip the data step, the
\* pass report is built from the data file that step 1 of the same run has
\* written, whatever data files were in the directory before.
C26_ReportFromThisRunsData ==
    (~ IsNone(args) /\ ~ args.skip_data /\ ~ IsNone(report_source)) =>
        report_source = Some(date_suffix(args.start, args.end))

\* C27 as claimed: the trajectory report completes and writes its outputs
\* for every fleet; a satellite that is propagated without failure and has
\* no visible sample in the window does not make the run fail, and once
\* the run is over every satellite of the fleet is in the written data.
C27_ReportCompletes ==
    /\ (\A i \in 1..Len(altaz) : ~ Failed(altaz[i])) => pc # "TypeError"
    /\ FleetEnded =>
          \/ \E i \in 1..Len(altaz) : Failed(altaz[i])
          \/ Len(run_result) = Len(fleet)

\* C28 as claimed: in every sample with populated metrics the recorded
\* link_quality is the quality that the thresholds assign to the snr_db
\* recorded in the same sample, the value rounded to 2 decimals.
C28_QualityOfRecordedSnr ==
    \A i \in 1..Len(positions) :
        Populated(positions[i]) =>
            positions[i].link_quality = link_quality(positions[i].snr_db[1])

\* the three components of a returned value are strings
three_strings(value) ==
    /\ ~ IsNone(value.name)
    /\ ~ IsNone(value.line1)
    /\ ~ IsNone(value.line2)

\* C29: fetch_tle_data never raises, whatever each request gives (an
\* exception, an error status, a short or malformed text); every request
\* sequence ends with the call returned, and what it returns is three
\* strings or (None, None, None), never a triple with only some
\* components None.
C29_FetchReturnsAllOrNothing ==
    /\ pc = "returned" <=> ~ IsNone(fetch_result)
    /\ \A k \in 1..Len(fetch_result) :
          /\ IsNone(fetch_result[k].raised)
          /\ \/ fetch_result[k].value = not_found
             \/ three_strings(fetch_result[k].value)

\* the first request is answered with an error status and the fallback
\* request times out: the call returns (None, None, None)
C29_Witness ==
    /\ pc = "returned"
    /\ Len(responses) = 2
    /\ "status_code" \in DOMAIN responses[1]
    /\ responses[1].status_code = 500
    /\ "exception" \in DOMAIN responses[2]
    /\ responses[2].exception = "Timeout"
    /\ fetch_result = Some(returned(not_found))

\* an analysis is queued or running
analysis_pending == idle_sources # << >>

=============================================================================
